---- MODULE Spec2Model ----
(***************************************************************************)
(* Model of the Fridge IoT dashboard (src/public/app.py).                  *)
(*                                                                         *)
(* The program reads a CSV file into a data frame at import time (df) and  *)
(* registers one Dash callback, update_dashboard, whose four inputs are    *)
(* the time slider, the active tab, the refresh interval counter and the   *)
(* live switch.  Each invocation reloads the file when the live flag is    *)
(* set and uses the module-level df otherwise, slices the frame by the     *)
(* slider window, computes four KPIs and composes the payload of one tab.  *)
(*                                                                         *)
(* Timestamps are pandas Timestamps, which carry sub-second resolution;    *)
(* the model counts them in ticks, TicksPerSecond ticks to a second.       *)
(* Energy, cost, voltage and duty cycle are integers.  A mean is kept      *)
(* exactly, as the pair (sum, count), and rounded where the code formats   *)
(* it.                                                                     *)
(*                                                                         *)
(* An invocation of the callback takes three steps: the request is         *)
(* dispatched with the input values, line 127 reads the file or takes df,  *)
(* and lines 128-204 compute and return.  The file may change and other    *)
(* invocations may run between the steps.                                  *)
(***************************************************************************)
EXTENDS Integers, Sequences, FiniteSets, TLC

\* ------------------------------------------------------------------ bounds
\* Sub-second resolution of a timestamp, in ticks per second.
TicksPerSecond == 2
\* Number of callback invocations that are dispatched in one behaviour.
MaxCycles == 2
\* Request threads of the server started by app.run_server.
NumWorkers == 2

\* --------------------------------------------------------- program constants
SecondsPerHour == 3600
HoursPerDay == 24
SliderStep == 60
BulletFloor == 50
\* The offset, in hours, that a timezone-aware Time column carries.
TzHours == 6

Workers == 1..NumWorkers

\* ------------------------------------------------------------ the CSV file
\* The rows the file may hold.  Time is in ticks since 1970-01-01; the
\* second row falls one tick after a whole second, the third row is on the
\* following day in the same hour of day as the first.
Day == HoursPerDay * SecondsPerHour

AllRows ==
  << [Time |-> 0,
      ActivePower_kW |-> 1, Energy_kWh |-> 10, Cost_cum_BDT |-> 100,
      Voltage_V |-> 220, Voltage_Deviation |-> 0, PowerFactor |-> 60,
      DutyCycle_24H |-> 40, dE_kWh |-> 0],
     [Time |-> SecondsPerHour * TicksPerSecond + 1,
      ActivePower_kW |-> 3, Energy_kWh |-> 12, Cost_cum_BDT |-> 130,
      Voltage_V |-> 231, Voltage_Deviation |-> 5, PowerFactor |-> 80,
      DutyCycle_24H |-> 50, dE_kWh |-> 2],
     [Time |-> (Day + SliderStep) * TicksPerSecond,
      ActivePower_kW |-> 2, Energy_kWh |-> 17, Cost_cum_BDT |-> 170,
      Voltage_V |-> 212, Voltage_Deviation |-> -4, PowerFactor |-> 95,
      DutyCycle_24H |-> 70, dE_kWh |-> 5] >>

\* Readable files: the log after one, two or three samples were appended,
\* sorted by Time and written without an offset, and the whole log written
\* with the offset +TzHours:00 on every row.  A row's Time is the wall-clock
\* time as written.
ReadableFiles ==
  { [kind |-> "csv", aware |-> FALSE, rows |-> SubSeq(AllRows, 1, k)] :
      k \in 1..Len(AllRows) }
    \cup { [kind |-> "csv", aware |-> TRUE, rows |-> AllRows] }

\* A file that cannot be opened, and one whose Time column is missing or
\* does not parse.
Unreadable == [kind |-> "unreadable", aware |-> FALSE, rows |-> << >>]
BadSchema == [kind |-> "bad-schema", aware |-> FALSE, rows |-> << >>]
Files == ReadableFiles \cup {Unreadable, BadSchema}

\* ------------------------------------------------------------- load_data
TzTicks == TzHours * SecondsPerHour * TicksPerSecond

\* read_csv(parse_dates=["Time"]): a timestamp written with an offset is the
\* instant that lies the offset before the wall-clock time, with the zone
\* attached; one written without is the wall-clock time itself.
ParseTime(written, aware) ==
  IF aware THEN [tz |-> TRUE, value |-> written - TzTicks]
  ELSE [tz |-> FALSE, value |-> written]

\* if is_datetime64tz_dtype: dt.tz_localize(None) drops the zone and keeps
\* the wall-clock time of the zone.
NormalizeTime(t) == IF t.tz THEN t.value + TzTicks ELSE t.value

\* Time - Timestamp("1970-01-01") floor-divided by one second.
UnixOf(time) == time \div TicksPerSecond

\* pd.to_datetime(v, unit="s")
to_datetime(v) == v * TicksPerSecond

WithUnix(r, aware) ==
  [Time |-> NormalizeTime(ParseTime(r.Time, aware)),
   unix |-> UnixOf(NormalizeTime(ParseTime(r.Time, aware))),
   ActivePower_kW |-> r.ActivePower_kW, Energy_kWh |-> r.Energy_kWh,
   Cost_cum_BDT |-> r.Cost_cum_BDT, Voltage_V |-> r.Voltage_V,
   Voltage_Deviation |-> r.Voltage_Deviation, PowerFactor |-> r.PowerFactor,
   DutyCycle_24H |-> r.DutyCycle_24H, dE_kWh |-> r.dE_kWh]

\* The result of a call: raised tells whether read_csv or the timestamp
\* arithmetic raised, frame is the data frame returned otherwise.
load_data(f) ==
  IF f.kind # "csv" THEN [raised |-> TRUE, frame |-> << >>]
  ELSE [raised |-> FALSE,
        frame |-> [i \in 1..Len(f.rows) |-> WithUnix(f.rows[i], f.aware)]]

\* --------------------------------------------------------- series helpers
RECURSIVE SumSeq(_)
SumSeq(s) == IF s = << >> THEN 0 ELSE Head(s) + SumSeq(Tail(s))

Column(data, col) == [i \in 1..Len(data) |-> data[i][col]]

RECURSIVE MinSeq(_)
MinSeq(s) ==
  IF Len(s) = 1 THEN s[1]
  ELSE LET m == MinSeq(Tail(s)) IN IF s[1] < m THEN s[1] ELSE m

RECURSIVE MaxSeq(_)
MaxSeq(s) ==
  IF Len(s) = 1 THEN s[1]
  ELSE LET m == MaxSeq(Tail(s)) IN IF s[1] > m THEN s[1] ELSE m

\* df["unix"].min() and df["unix"].max() of the slider's bounds
UnixMin(data) == MinSeq(Column(data, "unix"))
UnixMax(data) == MaxSeq(Column(data, "unix"))

\* ------------------------------------------------------- slice_by_slider
InWindow(r, t0, t1) == r.Time >= t0 /\ r.Time <= t1

slice_by_slider(data, slider) ==
  LET t0 == to_datetime(slider[1])
      t1 == to_datetime(slider[2])
  IN SelectSeq(data, LAMBDA r : InWindow(r, t0, t1))

\* ------------------------------------------------------------------ KPIs
Mean(s) == [sum |-> SumSeq(s), count |-> Len(s)]

\* dff[col].iloc[-1] and dff[col].iloc[0], which raise IndexError on an empty
\* frame; update_dashboard below takes that branch before using them
ILocLast(dff, col) == dff[Len(dff)][col]
ILocFirst(dff, col) == dff[1][col]

\* Variant: the net energy taken as the sum of the rows' increments.
total_kwh_delta_sum(dff) == SumSeq(Column(dff, "dE_kWh"))

total_kwh(dff) == ILocLast(dff, "Energy_kWh") - ILocFirst(dff, "Energy_kWh")
cost_bd(dff) == ILocLast(dff, "Cost_cum_BDT") - ILocFirst(dff, "Cost_cum_BDT")
avg_volt(dff) == Mean(Column(dff, "Voltage_V"))
duty_now(dff) == ILocLast(dff, "DutyCycle_24H")

\* f"{num/den:,.Nf}": the quotient rounded to N decimals, halves to the even
\* neighbour, as the number of units of 10^-N (unit is 10^N).
Fixed(num, den, unit) ==
  LET n == num * unit
      q == n \div den
      r == n - q * den
  IN IF 2 * r < den THEN q
     ELSE IF 2 * r > den THEN q + 1
     ELSE IF q % 2 = 0 THEN q ELSE q + 1

\* The numbers printed on the four cards of the KPI row: energy to two
\* decimals (in hundredths), cost, mean voltage and duty cycle to none.
Kpis(dff) ==
  [Energy |-> Fixed(total_kwh(dff), 1, 100),
   Cost   |-> Fixed(cost_bd(dff), 1, 1),
   AvgV   |-> Fixed(avg_volt(dff).sum, avg_volt(dff).count, 1),
   Duty   |-> Fixed(duty_now(dff), 1, 1)]

\* ------------------------------------------------------------ tab content
KnownTabs == {"tab-power", "tab-quality", "tab-cost"}

\* dff["Time"].dt.hour
HourOf(time) == (time \div (TicksPerSecond * SecondsPerHour)) % HoursPerDay

\* dff.groupby("hour")["dE_kWh"].sum(): one entry per hour that occurs
HourTable(dff) ==
  LET hours == { HourOf(dff[i].Time) : i \in 1..Len(dff) }
  IN [h \in hours |->
        SumSeq(Column(SelectSeq(dff, LAMBDA r : HourOf(r.Time) = h),
                      "dE_kWh"))]

Max2(a, b) == IF a >= b THEN a ELSE b

PowerContent(dff) ==
  [view |-> "tab-power",
   fig  |-> [x |-> Column(dff, "Time"), y |-> Column(dff, "ActivePower_kW")],
   fig2 |-> [x |-> Column(dff, "Time"),
             y |-> [i \in 1..Len(dff) |->
                      dff[i].Energy_kWh - ILocFirst(dff, "Energy_kWh")]]]

QualityContent(dff) ==
  [view  |-> "tab-quality",
   gauge |-> Mean(Column(dff, "PowerFactor")),
   hist  |-> Column(dff, "Voltage_Deviation")]

\* The axis bound max(cost_bd*1.2, 50) is kept in tenths.
CostContent(dff) ==
  [view   |-> "tab-cost",
   bullet |-> [value |-> cost_bd(dff),
               axis_max_tenths |-> Max2(cost_bd(dff) * 12, BulletFloor * 10)],
   pie    |-> HourTable(dff)]

\* The if / elif / else chain over the tab id.
Compose(dff, tab) ==
  IF tab = "tab-power" THEN PowerContent(dff)
  ELSE IF tab = "tab-quality" THEN QualityContent(dff)
  ELSE CostContent(dff)

\* ------------------------------------------------------- update_dashboard
\* Variant: the file is read whatever the live flag says.
LoadAlways(live_on, f, dfGlobal) ==
  [loads |-> 1, result |-> load_data(f)]

\* data = load_data() if live_on else df
LoadOrReuse(live_on, f, dfGlobal) ==
  IF live_on
  THEN [loads |-> 1, result |-> load_data(f)]
  ELSE [loads |-> 0, result |-> [raised |-> FALSE, frame |-> dfGlobal]]

\* Lines 128-204 on the frame that line 127 bound to data.  The argument n
\* (the interval counter) is never read.  returned holds the tuple
\* (kpis, content) of the return statement, and is empty when the IndexError
\* of .iloc on an empty slice leaves the function instead.
update_dashboard(data, slider_range, tab) ==
  LET dff == slice_by_slider(data, slider_range)
  IN IF dff = << >>
     THEN [dff |-> dff, error |-> "IndexError", returned |-> << >>]
     ELSE [dff |-> dff, error |-> "none",
           returned |-> << [kpis |-> Kpis(dff), content |-> Compose(dff, tab)] >>]

\* ------------------------------------------------------------------ state
VARIABLES
  file,        \* what CSV_PATH holds on disk
  df,          \* the module-level frame of the initial read
  ui,          \* current values of the callback inputs in the browser
  validTab,    \* the last tab id in ui that was one of the three tabs
  lastLoaded,  \* the frame returned by the most recent successful load_data
  last,        \* the most recently ended invocation and what it did
  pc,          \* per request thread: "idle", "dispatched" or "loaded"
  args,        \* per request thread: the arguments its invocation received
  local,       \* per request thread: the frame bound to data at line 127
  nextSeq      \* number of invocations dispatched to request threads

vars == << file, df, ui, validTab, lastLoaded, last, pc, args, local, nextSeq >>

Inputs == {"time-slider", "tabs", "refresh", "live-toggle"}

\* Tab ids a request may carry: the three tabs of the layout and one that
\* the layout does not define.
TabIds == KnownTabs \cup {"tab-other"}

\* Slider positions offered for a frame: its bounds and the first step
\* after the lower bound.
SliderPositions(frame) ==
  {UnixMin(frame), UnixMax(frame)}
    \cup {v \in {UnixMin(frame) + SliderStep} : v < UnixMax(frame)}

\* allowCross=False: the lower handle never passes the upper one.
SliderRanges(frame) ==
  { p \in SliderPositions(frame) \X SliderPositions(frame) : p[1] <= p[2] }

\* The input values of the layout.
InitialUi(frame) ==
  [slider |-> << UnixMin(frame), UnixMax(frame) >>, tab |-> "tab-power",
   live |-> TRUE]

\* The input values after the input trig changed.
ChangedUi(trig, slider, tab) ==
  [slider |-> slider, tab |-> tab,
   live |-> IF trig = "live-toggle" THEN ~ui.live ELSE ui.live]

\* trig is the one input whose value differs; a tick of the refresh
\* interval and a flip of the live switch always differ.
IsChange(trig, slider, tab) ==
  /\ (trig = "time-slider") = (slider # ui.slider)
  /\ (trig = "tabs") = (tab # ui.tab)

\* The arguments of one invocation: the input values, its number, and the
\* tab that was valid before it.  The interval counter n_intervals, which the
\* body never reads, and the identity of the inputs that changed are not
\* passed on.
Invocation(seq, u, prevTab) ==
  [seq |-> seq, slider |-> u.slider, tab |-> u.tab, live |-> u.live,
   validTab |-> prevTab]

NoArgs ==
  [seq |-> 0, slider |-> << 0, 0 >>, tab |-> "tab-power", live |-> FALSE,
   validTab |-> "tab-power"]

NoLocal == [loads |-> 0, data |-> << >>]

\* What the invocation a did: its arguments, what line 127 did and how
\* the body ended.
Record(a, loads, loaded, data, r) ==
  [done |-> TRUE, seq |-> a.seq, slider |-> a.slider, tab |-> a.tab,
   live |-> a.live, validTab |-> a.validTab,
   loads |-> loads, loaded |-> loaded, data |-> data, dff |-> r.dff,
   error |-> r.error, returned |-> r.returned]

NoCycle ==
  [done |-> FALSE, seq |-> 0, slider |-> << 0, 0 >>,
   tab |-> "tab-power", live |-> FALSE, validTab |-> "tab-power",
   loads |-> 0, loaded |-> FALSE, data |-> << >>, dff |-> << >>,
   error |-> "none", returned |-> << >>]

InFlight == {w \in Workers : pc[w] # "idle"}

\* df = load_data() at import: the program only starts when this succeeds.
Init ==
  /\ file \in ReadableFiles
  /\ df = load_data(file).frame
  /\ ui = InitialUi(df)
  /\ validTab = "tab-power"
  /\ lastLoaded = df
  /\ last = NoCycle
  /\ pc = [w \in Workers |-> "idle"]
  /\ args = [w \in Workers |-> NoArgs]
  /\ local = [w \in Workers |-> NoLocal]
  /\ nextSeq = 0

\* ---------------------------------------------------------------- actions
\* The file is appended to, rewritten, removed or corrupted by its producer.
FileChange ==
  /\ \E f \in Files \ {file} : file' = f
  /\ UNCHANGED << df, ui, validTab, lastLoaded, last, pc, args, local,
                  nextSeq >>

\* app.run_server hands the requests to Flask's development server, which
\* serves each request on a thread of its own unless told otherwise, and
\* update_dashboard takes no lock.  The model names the thread of a new
\* request by the lowest free index.
Free(w) ==
  /\ pc[w] = "idle"
  /\ \A v \in Workers : v < w => pc[v] # "idle"
  /\ nextSeq < MaxCycles

\* The browser's inputs take the values u and the callback is invoked with
\* them on the thread w.
Dispatch(w, u) ==
  /\ ui' = u
  /\ validTab' = IF u.tab \in KnownTabs THEN u.tab ELSE validTab
  /\ nextSeq' = nextSeq + 1
  /\ pc' = [pc EXCEPT ![w] = "dispatched"]
  /\ args' = [args EXCEPT ![w] = Invocation(nextSeq + 1, u, validTab)]
  /\ UNCHANGED << file, df, lastLoaded, last, local >>

\* The page is opened or reloaded: the callback fires with the layout's values.
PageLoad(w) ==
  /\ Free(w)
  /\ Dispatch(w, InitialUi(df))

\* One input changes; Dash invokes the callback with the current values of
\* all four.
InputChange(w, trig, slider, tab) ==
  /\ Free(w)
  /\ IsChange(trig, slider, tab)
  /\ Dispatch(w, ChangedUi(trig, slider, tab))

\* Line 127: data = load_data() if live_on else df.  An exception of
\* load_data leaves update_dashboard here.
Load(w) ==
  LET a  == args[w]
      lr == LoadOrReuse(a.live, file, df)
  IN /\ pc[w] = "dispatched"
     /\ IF lr.result.raised
        THEN /\ pc' = [pc EXCEPT ![w] = "idle"]
             /\ args' = [args EXCEPT ![w] = NoArgs]
             /\ last' = Record(a, lr.loads,
                               FALSE, << >>,
                               [dff |-> << >>, error |-> "load",
                                returned |-> << >>])
             /\ UNCHANGED << local, lastLoaded >>
        ELSE /\ pc' = [pc EXCEPT ![w] = "loaded"]
             /\ local' = [local EXCEPT ![w] =
                            [loads |-> lr.loads, data |-> lr.result.frame]]
             /\ lastLoaded' = IF lr.loads > 0 THEN lr.result.frame
                              ELSE lastLoaded
             /\ UNCHANGED << args, last >>
     /\ UNCHANGED << file, df, ui, validTab, nextSeq >>

\* Lines 128-204: slice, KPIs, tab content, return (or IndexError).
Return(w) ==
  LET a == args[w]
      r == update_dashboard(local[w].data, a.slider, a.tab)
  IN /\ pc[w] = "loaded"
     /\ pc' = [pc EXCEPT ![w] = "idle"]
     /\ args' = [args EXCEPT ![w] = NoArgs]
     /\ local' = [local EXCEPT ![w] = NoLocal]
     /\ last' = Record(a, local[w].loads, TRUE,
                       local[w].data, r)
     /\ UNCHANGED << file, df, ui, validTab, lastLoaded, nextSeq >>

Next ==
  \/ FileChange
  \/ \E w \in Workers : PageLoad(w)
  \/ \E w \in Workers, trig \in Inputs, slider \in SliderRanges(df),
        tab \in TabIds : InputChange(w, trig, slider, tab)
  \/ \E w \in Workers : Load(w)
  \/ \E w \in Workers : Return(w)

Spec == Init /\ [][Next]_vars

\* --- one invocation followed through its steps, for every frame of the
\* initial read, every file, and every combination of input values: the
\* program after import, with its first request just dispatched.
InitOne ==
  /\ file \in Files
  /\ \E f \in ReadableFiles : df = load_data(f).frame
  /\ \E s \in SliderRanges(df), t \in TabIds, l \in BOOLEAN :
        ui = [slider |-> s, tab |-> t, live |-> l]
  /\ validTab \in KnownTabs
  /\ ui.tab \in KnownTabs => validTab = ui.tab
  /\ lastLoaded = df
  /\ last = NoCycle
  /\ pc = [w \in Workers |-> IF w = 1 THEN "dispatched" ELSE "idle"]
  /\ \E prev \in KnownTabs :
        /\ ui.tab \notin KnownTabs => prev = validTab
        /\ args = [w \in Workers |->
                     IF w = 1 THEN Invocation(1, ui, prev) ELSE NoArgs]
  /\ local = [w \in Workers |-> NoLocal]
  /\ nextSeq = 1

NextOne ==
  \/ FileChange
  \/ \E w \in Workers : Load(w)
  \/ \E w \in Workers : Return(w)

SpecOne == InitOne /\ [][NextOne]_vars

\* ------------------------------------------------------------- properties
RECURSIVE SumOver(_, _)
SumOver(f, S) ==
  IF S = {} THEN 0
  ELSE LET x == CHOOSE y \in S : TRUE IN f[x] + SumOver(f, S \ {x})

Returned == last.done /\ last.error = "none"
Tuple == last.returned[1]
CostBranch == last.tab \notin {"tab-power", "tab-quality"}

\* C1: an invocation calls load_data exactly once when its live flag is true
\* and not at all when it is false, whichever inputs triggered it.
C1_LoadOnlyWhenLive ==
  /\ last.done => last.loads = (IF last.live THEN 1 ELSE 0)
  /\ \A w \in Workers :
       pc[w] = "loaded" => local[w].loads = (IF args[w].live THEN 1 ELSE 0)

\* A non-live invocation has run after the file changed and read nothing.
C1_Witness ==
  /\ last.done /\ ~last.live /\ last.loads = 0
  /\ file.kind = "csv" /\ load_data(file).frame # last.data

\* C2: an invocation with the live flag false works on the frame returned
\* by the most recent successful load_data, loads of earlier live invocations
\* included.
C2_FrozenAtLastReload ==
  (last.done /\ ~last.live) => last.data = lastLoaded

\* C3: every invocation returns exactly one (kpis, content) tuple, and both
\* members are computed from the one slice of the one frame it used, for its
\* window and its tab.
C3_OneConsistentTuple ==
  last.done =>
    /\ Len(last.returned) = 1
    /\ last.dff = slice_by_slider(last.data, last.slider)
    /\ Tuple.kpis = Kpis(last.dff)
    /\ Tuple.content = Compose(last.dff, last.tab)

\* C4: an invocation whose window selects no row completes normally and
\* returns a tuple; no first or last element access raises.
C4_EmptyWindowCompletes ==
  (last.done /\ last.loaded /\ last.dff = << >>) =>
    (last.error = "none" /\ Len(last.returned) = 1)

\* C5: when load_data fails in a live invocation the failure is caught
\* inside the invocation: no exception leaves update_dashboard.
C5_LoadFailureCaught ==
  (last.done /\ last.loads = 1 /\ ~last.loaded) => last.error = "none"

\* C6: an invocation whose tab id is none of the three tabs composes the
\* content of the tab that was valid before it.
C6_UnknownViewFallsBack ==
  (Returned /\ last.tab \notin KnownTabs) =>
    Tuple.content.view = last.validTab

\* C7: for a window inside the unix bounds of the frame the slice is exactly
\* the rows whose timestamp lies in the closed window, in order, and for the
\* window [min unix, max unix] it is the whole frame.
C7_SliceIsClosedWindow ==
  (/\ last.done /\ last.loaded
   /\ UnixMin(last.data) <= last.slider[1]
   /\ last.slider[1] <= last.slider[2]
   /\ last.slider[2] <= UnixMax(last.data)) =>
    /\ last.dff = SelectSeq(last.data,
                     LAMBDA r : /\ last.slider[1] * TicksPerSecond <= r.Time
                                /\ r.Time <= last.slider[2] * TicksPerSecond)
    /\ (last.slider = << UnixMin(last.data), UnixMax(last.data) >>
          => last.dff = last.data)

\* C8: no two invocations are ever in flight at the same time.
C8_OneCycleAtATime ==
  Cardinality(InFlight) <= 1

\* C9: the cost tab's hour table has the 24 keys 0..23, no value
\* is negative and the values sum to the sum of the rows' energy increments.
C9_TwentyFourBuckets ==
  (Returned /\ CostBranch) =>
    LET pie == Tuple.content.pie
    IN /\ DOMAIN pie = 0..(HoursPerDay - 1)
       /\ \A h \in DOMAIN pie : pie[h] >= 0
       /\ SumOver(pie, DOMAIN pie) = SumSeq(Column(last.dff, "dE_kWh"))

\* C10: the energy and cost KPIs are the last row's cumulative value minus
\* the first row's (the energy card prints hundredths), the duty KPI is the
\* last row's value; over a single row energy and cost are 0 and the mean
\* voltage is that row's voltage.
C10_LastMinusFirst ==
  Returned =>
    LET k == Tuple.kpis
        first == last.dff[1]
        final == last.dff[Len(last.dff)]
    IN /\ k.Energy = 100 * (final.Energy_kWh - first.Energy_kWh)
       /\ k.Cost = final.Cost_cum_BDT - first.Cost_cum_BDT
       /\ k.Duty = final.DutyCycle_24H
       /\ Len(last.dff) = 1 =>
            /\ k.Energy = 0
            /\ k.Cost = 0
            /\ k.AvgV = first.Voltage_V

\* A window of one row whose own increment is not zero.
C10_Witness ==
  /\ Returned
  /\ Len(last.dff) = 1
  /\ last.dff[1].dE_kWh > 0
  /\ Tuple.kpis.Energy = 0

====
